---- MODULE Spec2Model ----
(***************************************************************************)
(* Model of the gharsa tree-planting apps:                                 *)
(*   - extractSerialNumber, the pure payload -> serial rule                 *)
(*     (QRScanner.tsx, src/unnamed/part_005 lines 150-172);                 *)
(*   - the QRScanner component's camera session (same file, 190-508);      *)
(*   - the serial-number input of DataEntryForm (src/unnamed/part_004);     *)
(*   - the admin API client and useAuth (frontend-admin lib/api.ts,         *)
(*     pages/Index.tsx);                                                    *)
(*   - the public tree page (frontend-admin TreePlantingApp.tsx,            *)
(*     frontend-view Header.tsx).                                           *)
(*                                                                         *)
(* Strings are sequences of tokens.  A token stands for a run of           *)
(* characters that the URL parser treats as a unit: a scheme with its      *)
(* colon ("https:", "tel:"), the delimiters "/" and "?", the dot segment   *)
(* "..", and words (two host names and a serial).                          *)
(***************************************************************************)
EXTENDS Integers, Sequences, FiniteSets, TLC

\* The pure function's check: the payload, the result of running
\* extractSerialNumber on it, and on the payload with the other host.
VARIABLES payload, outcome, swapped

\* The QRScanner component (part_005 lines 190-508).
VARIABLES
  secure,            \* window.isSecureContext || hostname === 'localhost'
  mounted,           \* the component is mounted
  isOpen,            \* useState isOpen
  effectIsOpen,      \* the isOpen value the [isOpen] effect last ran for
  isScanning,        \* scanState.isScanning
  isInitializing,    \* scanState.isInitializing
  error,             \* scanState.error ("null" when null)
  hasPermission,     \* scanState.hasPermission
  isTorchOn,         \* scanState.isTorchOn
  availableCameras,  \* useState availableCameras
  selectedCameraId,  \* useState selectedCameraId
  streamRef,         \* streamRef.current (0 when null)
  readerRef,         \* readerRef.current is not null
  isScanningRef,     \* isScanningRef.current
  detecting,         \* decodeFromVideoDevice calls still awaited
  loops,             \* decode loops started by decodeFromVideoDevice
  torchPending,      \* applyConstraints calls of toggleTorch still awaited
  enumerated,        \* the devices enumerateDevices answered last
  calls,             \* getUserMedia calls made so far; a call's number names its stream
  pendingStart,      \* startCamera's getUserMedia calls still awaited
  pendingEnum,       \* enumerateCameras' getUserMedia calls still awaited
  timers,            \* pending setTimeout(() => startCamera(deviceId), 100)
  acquired,          \* streams handed out to startCamera
  acquiredEnum,      \* streams handed out to enumerateCameras
  stops,             \* per stream, how many times its tracks were stopped
  preempted,         \* awaited starts that stopCamera ran over, with no start since
  sessionResults,    \* onResult calls since the last startCamera or stopCamera
  lastResult,        \* the last serial handed to onResult
  resultStream,      \* streamRef.current when onResult was last called
  lastError,         \* the last message handed to onError ("null" when none)
  started,           \* startCamera has been called
  stopped,           \* stopCamera has run, and startCamera was not called since
  rejectedWith,      \* error.name of the last rejection startCamera caught
  lastOp             \* the handler that ran last, with what it found

\* The serial-number input of DataEntryForm (part_004 lines 183-197, 271-279).
VARIABLES
  typed,             \* event.target.value of the last change event
  parsed,            \* what handleQRInputChange last gave to form.setValue
  qrCode             \* the form's qrCode value

\* The API client (api.ts) and useAuth (Index.tsx 95-151).
VARIABLES
  jwt,               \* localStorage holds STORAGE_KEYS.JWT_TOKEN
  userInfo,          \* localStorage holds STORAGE_KEYS.USER_INFO
  isAuthenticated,   \* useAuth's isAuthenticated state
  user,              \* useAuth's user state is not null
  isLoading,         \* useAuth's isLoading state
  navigating,        \* window.location.href = '/' was assigned, the page not yet reloaded
  loginPending,      \* authAPI.login awaits its response
  pc,                \* the request treesAPI.create awaits
  files,             \* the photos given to treesAPI.create
  photoIds,          \* treePhotoId / planterPhotoId are set
  requests,          \* the requests treesAPI.create has issued, in order
  submitResult,      \* how the last treesAPI.create ended
  apiOp              \* the API step that ran last

\* TreeDataPage (TreePlantingApp.tsx 620-740).
VARIABLES
  serial,            \* the :serial route parameter
  treeData,          \* useState treeData ("null", or the serial of the tree)
  loading,           \* useState loading
  pageError,         \* useState error ("null" when null)
  inflight,          \* fetchTreeBySerial calls still awaited, with their serial
  fetches,           \* fetchTreeData calls made so far; a call's number names it
  latest,            \* how the latest fetchTreeData call ended
  pageOp             \* the page step that ran last

extractVars == <<payload, outcome, swapped>>

formVars == <<typed, parsed, qrCode>>

apiVars ==
  <<jwt, userInfo, isAuthenticated, user, isLoading, navigating, loginPending,
    pc, files, photoIds, requests, submitResult, apiOp>>

pageVars == <<serial, treeData, loading, pageError, inflight, fetches, latest, pageOp>>

appVars == <<formVars, apiVars, pageVars>>

scannerVars ==
  <<secure, mounted, isOpen, effectIsOpen, isScanning, isInitializing, error,
    hasPermission, isTorchOn, availableCameras, selectedCameraId, streamRef,
    readerRef, isScanningRef, detecting, loops, torchPending, enumerated, calls,
    pendingStart, pendingEnum, timers,
    acquired, acquiredEnum, stops, preempted, sessionResults, lastResult,
    resultStream, lastError, started, stopped, rejectedWith, lastOp>>

vars == <<payload, outcome, swapped, scannerVars, appVars>>

\* ------------------------------------------------------------------------
\* Bounds
\* ------------------------------------------------------------------------
MaxLen == 5

\* getUserMedia calls in one run of the component.
MaxCalls == 4

\* applyConstraints calls of toggleTorch awaited at one time.
MaxTorch == 1

\* ------------------------------------------------------------------------
\* Tokens
\* ------------------------------------------------------------------------
ExpectedHost == "rehla-trees-planting.com"

OtherHost == "other.com"

SchemeTokens == {"https:", "tel:"}

Alphabet == {"https:", "tel:", "/", "?", "..", ExpectedHost, OtherHost, "A1"}

SchemeName(t) == IF t = "https:" THEN "https" ELSE "tel"

\* ASCII lower-casing of a token (the host of a special URL is lower-cased).
Lower(t) == IF t = "A1" THEN "a1" ELSE t

SeqsUpTo(n) == UNION {[1..k -> Alphabet] : k \in 0..n}

\* Payloads: every token string up to MaxLen, and every such string after
\* the canonical prefix "https://".
Payloads == SeqsUpTo(MaxLen) \cup {<<"https:", "/", "/">> \o s : s \in SeqsUpTo(MaxLen)}

\* ------------------------------------------------------------------------
\* Sequence helpers
\* ------------------------------------------------------------------------
\* Index of the first element of s that lies in S, Len(s)+1 when there is none.
FirstIn(s, S) ==
  IF \E i \in 1..Len(s) : s[i] \in S
    THEN CHOOSE i \in 1..Len(s) : s[i] \in S /\ \A j \in 1..(i-1) : s[j] \notin S
    ELSE Len(s) + 1

From(s, i) == SubSeq(s, i, Len(s))

\* String.prototype.split: the pieces of s between occurrences of sep
\* (one empty piece for the empty string, as split('/') gives [""]).
RECURSIVE Split(_, _)
Split(s, sep) ==
  LET i == FirstIn(s, {sep})
  IN  IF i > Len(s) THEN <<s>>
      ELSE <<SubSeq(s, 1, i-1)>> \o Split(From(s, i+1), sep)

\* Array.prototype.filter(segment => segment.length > 0)
FilterNonEmpty(segs) == SelectSeq(segs, LAMBDA g : Len(g) > 0)

RECURSIVE MapLower(_)
MapLower(s) == IF s = <<>> THEN <<>> ELSE <<Lower(Head(s))>> \o MapLower(Tail(s))

\* ------------------------------------------------------------------------
\* new URL(input), without a base (part_005 line 153), following the URL
\* standard's basic parser on token strings.
\* ------------------------------------------------------------------------
ParseFailure == [ok |-> FALSE, hostname |-> <<>>, pathname |-> <<>>]

\* Path state: percent-free tokens are copied, a ".." segment removes the
\* last segment of the path built so far, and a ".." that ends the path
\* leaves an empty last segment.
RECURSIVE PathState(_, _)
PathState(raw, path) ==
  IF raw = <<>> THEN path
  ELSE LET seg     == Head(raw)
           isLast  == Len(raw) = 1
           shorter == IF path = <<>> THEN path ELSE SubSeq(path, 1, Len(path) - 1)
       IN  IF seg = <<"..">>
             THEN PathState(Tail(raw), IF isLast THEN Append(shorter, <<>>) ELSE shorter)
             ELSE PathState(Tail(raw), Append(path, seg))

\* The serialised path: "/" before every segment.
RECURSIVE JoinPath(_)
JoinPath(segs) ==
  IF segs = <<>> THEN <<>> ELSE (<<"/">> \o Head(segs)) \o JoinPath(Tail(segs))

\* pathname of a hierarchical URL from the tokens of its path ("/..."),
\* cut at the query.
HierPathname(pathTokens) == JoinPath(PathState(Split(Tail(pathTokens), "/"), <<>>))

\* Host state on the authority tokens: the host ends at the first colon
\* (which our alphabet only has as the end of a scheme token); what follows
\* is the port and must be digits, which no token is.
HostOf(auth, special) ==
  LET c    == FirstIn(auth, SchemeTokens)
      host == SubSeq(auth, 1, c - 1)
                \o (IF c <= Len(auth) THEN <<SchemeName(auth[c])>> ELSE <<>>)
      port == From(auth, c + 1)
  IN  IF port # <<>> THEN [ok |-> FALSE, host |-> <<>>]
      ELSE IF special /\ host = <<>> THEN [ok |-> FALSE, host |-> <<>>]
      ELSE [ok |-> TRUE, host |-> IF special THEN MapLower(host) ELSE host]

\* Everything after the authority: the path up to the query.
PathTokensOf(afterAuth) == SubSeq(afterAuth, 1, FirstIn(afterAuth, {"?"}) - 1)

\* "https:" - a special scheme: any number of slashes is skipped before the
\* authority, the host must not be empty, the path is never empty.
ParseSpecial(rest) ==
  LET r1    == From(rest, FirstIn(rest, Alphabet \ {"/"}))
      a     == FirstIn(r1, {"/", "?"})
      h     == HostOf(SubSeq(r1, 1, a - 1), TRUE)
      pt    == PathTokensOf(From(r1, a))
  IN  IF ~h.ok THEN ParseFailure
      ELSE [ok |-> TRUE, hostname |-> h.host,
            pathname |-> HierPathname(IF pt = <<>> THEN <<"/">> ELSE pt)]

\* Any other scheme: "//" starts an authority, a single "/" a path, anything
\* else is an opaque path kept as it is.
ParseNonSpecial(rest) ==
  IF Len(rest) >= 2 /\ rest[1] = "/" /\ rest[2] = "/"
    THEN LET r1 == From(rest, 3)
             a  == FirstIn(r1, {"/", "?"})
             h  == HostOf(SubSeq(r1, 1, a - 1), FALSE)
             pt == PathTokensOf(From(r1, a))
         IN  IF ~h.ok THEN ParseFailure
             ELSE [ok |-> TRUE, hostname |-> h.host,
                   pathname |-> IF pt = <<>> THEN <<>> ELSE HierPathname(pt)]
  ELSE IF Len(rest) >= 1 /\ rest[1] = "/"
    THEN [ok |-> TRUE, hostname |-> <<>>, pathname |-> HierPathname(PathTokensOf(rest))]
  ELSE [ok |-> TRUE, hostname |-> <<>>, pathname |-> PathTokensOf(rest)]

\* Scheme start / scheme state: the input must begin with a letter and
\* reach a colon before any "/" or "?"; with no base URL anything else is
\* a TypeError.
ParseURL(input) ==
  LET k == FirstIn(input, SchemeTokens \cup {"/", "?"})
  IN  IF k > Len(input) THEN ParseFailure
      ELSE IF input[k] \notin SchemeTokens THEN ParseFailure
      ELSE IF input[1] = ".." THEN ParseFailure
      ELSE IF k = 1 /\ input[1] = "https:" THEN ParseSpecial(From(input, 2))
      ELSE ParseNonSpecial(From(input, k + 1))

\* ------------------------------------------------------------------------
\* extractSerialNumber (part_005 lines 150-172)
\* ------------------------------------------------------------------------
\* Faulty variant: the first segment instead of the last.
LastSegment_First(segs) ==
  IF Len(segs) = 0 THEN [defined |-> FALSE, v |-> <<>>]
  ELSE [defined |-> TRUE, v |-> segs[1]]

\* pathSegments[pathSegments.length - 1]: undefined on an empty array.
LastSegment(segs) ==
  IF Len(segs) = 0 THEN [defined |-> FALSE, v |-> <<>>]
  ELSE [defined |-> TRUE, v |-> segs[Len(segs)]]

\* Faulty variant: no fallback to the original text.
OrElse_NoFallback(x, y) == x.v

\* serialNumber || qrCodeText: undefined and "" are falsy.
OrElse(x, y) == IF x.defined /\ x.v # <<>> THEN x.v ELSE y

\* Faulty variant: falls back to the host name when there is no path segment.
TryBody_HostFallback(qrCodeText) ==
  LET url          == ParseURL(qrCodeText)
      pathSegments == FilterNonEmpty(Split(url.pathname, "/"))
      serialNumber == LastSegment(pathSegments)
  IN  IF ~url.ok
        THEN [raised |-> TRUE, value |-> <<>>, warned |-> FALSE]
        ELSE [raised |-> FALSE,
              value  |-> OrElse(serialNumber, url.hostname),
              warned |-> url.hostname # <<ExpectedHost>>]

\* Faulty variant: a payload from an unexpected domain is not parsed but returned whole.
TryBody_Blocking(qrCodeText) ==
  LET url          == ParseURL(qrCodeText)
      pathSegments == FilterNonEmpty(Split(url.pathname, "/"))
      serialNumber == LastSegment(pathSegments)
  IN  IF ~url.ok
        THEN [raised |-> TRUE, value |-> <<>>, warned |-> FALSE]
        ELSE IF url.hostname # <<ExpectedHost>>
          THEN [raised |-> FALSE, value |-> qrCodeText, warned |-> TRUE]
          ELSE [raised |-> FALSE,
                value  |-> OrElse(serialNumber, qrCodeText),
                warned |-> FALSE]

\* The body of the try block: raises when new URL throws.
TryBody(qrCodeText) ==
  LET url          == ParseURL(qrCodeText)
      pathSegments == FilterNonEmpty(Split(url.pathname, "/"))
      serialNumber == LastSegment(pathSegments)
  IN  IF ~url.ok
        THEN [raised |-> TRUE, value |-> <<>>, warned |-> FALSE]
        ELSE [raised |-> FALSE,
              value  |-> OrElse(serialNumber, qrCodeText),
              warned |-> url.hostname # <<ExpectedHost>>]

\* Faulty variant: the catch block returns an empty string.
CatchBlock_Empty(qrCodeText) == [threw |-> FALSE, value |-> <<>>, warned |-> FALSE]

\* The catch block: returns the original text.
CatchBlock(qrCodeText) == [threw |-> FALSE, value |-> qrCodeText, warned |-> FALSE]

\* Faulty variant: no catch, the TypeError of new URL escapes.
extractSerialNumber_NoCatch(qrCodeText) ==
  LET b == TryBody(qrCodeText)
  IN  [threw |-> b.raised, value |-> b.value, warned |-> b.warned]

extractSerialNumber(qrCodeText) ==
  LET b == TryBody(qrCodeText)
  IN  IF b.raised THEN CatchBlock(qrCodeText)
      ELSE [threw |-> FALSE, value |-> b.value, warned |-> b.warned]

\* ------------------------------------------------------------------------
\* The QRScanner component (part_005 lines 190-508)
\* ------------------------------------------------------------------------
NoStream == 0

StreamIds == 1..MaxCalls

FrontCamera == [deviceId |-> "front", isBackCamera |-> FALSE]

BackCamera == [deviceId |-> "back", isBackCamera |-> TRUE]

\* What enumerateDevices can answer (video inputs, in the browser's order).
DeviceLists == {<<>>, <<FrontCamera>>, <<FrontCamera, BackCamera>>}

\* The names getUserMedia rejects with.
ErrorNames ==
  {"NotAllowedError", "NotFoundError", "NotReadableError", "OverconstrainedError", "AbortError"}

\* What the decode loop can read from a frame.
ScanPayloads == {<<"https:", "/", "/", ExpectedHost, "/", "A1">>, <<"A1", "A1">>}

\* The component's state as one record, so that the calls a handler makes
\* are applied one after the other.
Cur ==
  [secure |-> secure, mounted |-> mounted, isOpen |-> isOpen,
   effectIsOpen |-> effectIsOpen, isScanning |-> isScanning,
   isInitializing |-> isInitializing, error |-> error,
   hasPermission |-> hasPermission, isTorchOn |-> isTorchOn,
   availableCameras |-> availableCameras, selectedCameraId |-> selectedCameraId,
   streamRef |-> streamRef, readerRef |-> readerRef,
   isScanningRef |-> isScanningRef, detecting |-> detecting, loops |-> loops,
   torchPending |-> torchPending, enumerated |-> enumerated, calls |-> calls,
   pendingStart |-> pendingStart, pendingEnum |-> pendingEnum, timers |-> timers,
   acquired |-> acquired, acquiredEnum |-> acquiredEnum, stops |-> stops,
   preempted |-> preempted, sessionResults |-> sessionResults,
   lastResult |-> lastResult, resultStream |-> resultStream,
   lastError |-> lastError, started |-> started,
   stopped |-> stopped, rejectedWith |-> rejectedWith]

\* The state a handler leaves, with the name of the handler.
Commit(c, op) ==
  /\ secure' = c.secure
  /\ mounted' = c.mounted
  /\ isOpen' = c.isOpen
  /\ effectIsOpen' = c.effectIsOpen
  /\ isScanning' = c.isScanning
  /\ isInitializing' = c.isInitializing
  /\ error' = c.error
  /\ hasPermission' = c.hasPermission
  /\ isTorchOn' = c.isTorchOn
  /\ availableCameras' = c.availableCameras
  /\ selectedCameraId' = c.selectedCameraId
  /\ streamRef' = c.streamRef
  /\ readerRef' = c.readerRef
  /\ isScanningRef' = c.isScanningRef
  /\ detecting' = c.detecting
  /\ loops' = c.loops
  /\ torchPending' = c.torchPending
  /\ enumerated' = c.enumerated
  /\ calls' = c.calls
  /\ pendingStart' = c.pendingStart
  /\ pendingEnum' = c.pendingEnum
  /\ timers' = c.timers
  /\ acquired' = c.acquired
  /\ acquiredEnum' = c.acquiredEnum
  /\ stops' = c.stops
  /\ preempted' = c.preempted
  /\ sessionResults' = c.sessionResults
  /\ lastResult' = c.lastResult
  /\ resultStream' = c.resultStream
  /\ lastError' = c.lastError
  /\ started' = c.started
  /\ stopped' = c.stopped
  /\ rejectedWith' = c.rejectedWith
  /\ lastOp' = op
  /\ UNCHANGED <<extractVars, appVars>>

\* c with the fields of upd replaced.
Merge(c, upd) == [f \in DOMAIN c |-> IF f \in DOMAIN upd THEN upd[f] ELSE c[f]]

\* setScanState / setIsOpen / setAvailableCameras / setSelectedCameraId:
\* React drops a state update of a component that is no longer mounted.
SetState(c, upd) == IF c.mounted THEN Merge(c, upd) ELSE c

\* streamRef.current.getTracks().forEach(track => track.stop())
StopTracks(c) ==
  IF c.streamRef # NoStream
    THEN [c EXCEPT !.stops[c.streamRef] = @ + 1]
    ELSE c

\* initializeReader (217-228)
initializeReader(c) == [c EXCEPT !.readerRef = TRUE]

\* Faulty variant: stopCamera that stops the tracks and keeps the reference.
stopCamera_KeepRef(c) ==
  LET c1 == [c EXCEPT !.isScanningRef = FALSE]
      c2 == StopTracks(c1)
      c3 == [c2 EXCEPT !.readerRef = FALSE]
  IN  SetState([c3 EXCEPT !.preempted = c3.pendingStart, !.sessionResults = 0,
                          !.stopped = TRUE],
               [isScanning |-> FALSE, isInitializing |-> FALSE, isTorchOn |-> FALSE])

\* stopCamera (410-431)
stopCamera(c) ==
  LET c1 == [c EXCEPT !.isScanningRef = FALSE]
      c2 == [StopTracks(c1) EXCEPT !.streamRef = NoStream]
      c3 == [c2 EXCEPT !.readerRef = FALSE]
  IN  SetState([c3 EXCEPT !.preempted = c3.pendingStart, !.sessionResults = 0,
                          !.stopped = TRUE],
               [isScanning |-> FALSE, isInitializing |-> FALSE, isTorchOn |-> FALSE])

HttpsMessage == "Camera access requires HTTPS. Please use a secure connection."

EnumerateMessage == "Unable to access camera devices. Please check permissions."

\* Faulty variant: a busy device is reported as a missing one.
ErrorMessage_Merged(name) ==
  CASE name = "NotAllowedError" ->
         "Unable to access camera. Camera permission denied. Please allow camera access and try again."
    [] name \in {"NotFoundError", "NotReadableError"} ->
         "Unable to access camera. No camera found. Please connect a camera and try again."
    [] name = "OverconstrainedError" ->
         "Unable to access camera. Camera constraints cannot be satisfied."
    [] OTHER ->
         "Unable to access camera. Please check your camera and try again."

\* The message startCamera's catch builds from error.name (333-345).
ErrorMessage(name) ==
  CASE name = "NotAllowedError" ->
         "Unable to access camera. Camera permission denied. Please allow camera access and try again."
    [] name = "NotFoundError" ->
         "Unable to access camera. No camera found. Please connect a camera and try again."
    [] name = "NotReadableError" ->
         "Unable to access camera. Camera is already in use by another application."
    [] name = "OverconstrainedError" ->
         "Unable to access camera. Camera constraints cannot be satisfied."
    [] OTHER ->
         "Unable to access camera. Please check your camera and try again."

\* videoRef.current: the <video> element is rendered while the dialog is
\* open and the session is initializing or scanning (559-575).
VideoRef(c) == c.mounted /\ c.isOpen /\ (c.isScanning \/ c.isInitializing)

\* Faulty variant: the devices in the order enumerateDevices gave them.
SortBackFirst_AsGiven(devs) == devs

\* Array.prototype.sort with the back-camera-first comparator (258-263):
\* a stable partition.
SortBackFirst(devs) ==
  SelectSeq(devs, LAMBDA d : d.isBackCamera) \o SelectSeq(devs, LAMBDA d : ~d.isBackCamera)

\* enumerateCameras up to its first await (242-245): outside a secure
\* context navigator.mediaDevices is undefined and the catch block runs.
enumerateCameras(c) ==
  IF ~c.secure
    THEN SetState(c, [error |-> EnumerateMessage])
    ELSE [c EXCEPT !.calls = @ + 1, !.pendingEnum = @ \cup {c.calls + 1}]

\* enumerateCameras after getUserMedia and enumerateDevices resolved
\* (247-275): the stream it was given is not kept and not stopped.
enumerateResolved(c, id, devices) ==
  LET videoDevices == SortBackFirst(devices)
      c1 == [c EXCEPT !.pendingEnum = @ \ {id}, !.acquiredEnum = @ \cup {id},
                      !.enumerated = devices]
      c2 == SetState(c1, [availableCameras |-> videoDevices])
  IN  IF \E i \in 1..Len(videoDevices) : videoDevices[i].isBackCamera
        THEN SetState(c2, [selectedCameraId |->
               videoDevices[CHOOSE i \in 1..Len(videoDevices) :
                  /\ videoDevices[i].isBackCamera
                  /\ \A j \in 1..(i-1) : ~videoDevices[j].isBackCamera].deviceId])
      ELSE IF Len(videoDevices) > 0
        THEN SetState(c2, [selectedCameraId |-> videoDevices[1].deviceId])
      ELSE c2

\* enumerateCameras' catch block (276-283)
enumerateRejected(c, id) ==
  SetState([c EXCEPT !.pendingEnum = @ \ {id}], [error |-> EnumerateMessage])

\* startCamera up to its await of getUserMedia (287-310)
startCamera(c) ==
  IF ~c.secure
    THEN [SetState(c, [error |-> HttpsMessage]) EXCEPT !.lastError = HttpsMessage]
    ELSE LET c1 == SetState(c, [isInitializing |-> TRUE, error |-> "null"])
             c2 == StopTracks(c1)
         IN  [c2 EXCEPT !.calls = @ + 1, !.pendingStart = @ \cup {c.calls + 1},
                        !.started = TRUE, !.preempted = {}, !.sessionResults = 0,
                        !.stopped = FALSE]

\* startQRDetection (359-368): video is videoRef.current at the call.
startQRDetection(c, video) ==
  IF ~c.readerRef \/ ~video \/ c.isScanningRef
    THEN c
    ELSE [c EXCEPT !.isScanningRef = TRUE, !.detecting = @ + 1]

DetectMessage == "Failed to start QR code detection"

\* decodeFromVideoDevice resolved (366): its decode loop runs from now on.
detectionStarted(c) == [c EXCEPT !.detecting = @ - 1, !.loops = @ + 1]

\* startQRDetection's catch block (398-406)
detectionFailed(c) ==
  LET c1 == [c EXCEPT !.detecting = @ - 1]
  IN  IF c1.isScanningRef THEN SetState(c1, [error |-> DetectMessage]) ELSE c1

\* startCamera after getUserMedia resolved (311-328)
startResolved(c, id) ==
  LET c1 == [c EXCEPT !.pendingStart = @ \ {id}, !.preempted = @ \ {id},
                      !.acquired = @ \cup {id}, !.streamRef = id]
      c2 == SetState(c1, [isInitializing |-> FALSE, isScanning |-> TRUE,
                          hasPermission |-> TRUE, error |-> "null"])
  IN  startQRDetection(c2, VideoRef(c))

\* startCamera's catch block (330-355)
startRejected(c, id, name) ==
  LET c1 == [c EXCEPT !.pendingStart = @ \ {id}, !.preempted = @ \ {id},
                      !.lastError = ErrorMessage(name), !.rejectedWith = name]
  IN  SetState(c1, [isInitializing |-> FALSE, error |-> ErrorMessage(name),
                    hasPermission |-> FALSE])

\* Faulty variant: the decode callback delivers without looking at the flag.
decodeCallback_NoFlag(c, rawText) ==
  LET serialNumber == extractSerialNumber(rawText).value
      c1 == SetState(c, [isScanning |-> FALSE])
      c2 == [c1 EXCEPT !.sessionResults = @ + 1, !.lastResult = serialNumber,
                       !.resultStream = c.streamRef]
  IN  SetState(c2, [isOpen |-> FALSE])

\* The decode callback on a frame with a result (369-391)
decodeCallback(c, rawText) ==
  IF c.isScanningRef
    THEN LET serialNumber == extractSerialNumber(rawText).value
             c1 == [c EXCEPT !.isScanningRef = FALSE]
             c2 == SetState(c1, [isScanning |-> FALSE])
             c3 == [c2 EXCEPT !.sessionResults = @ + 1, !.lastResult = serialNumber,
                              !.resultStream = c.streamRef]
         IN  SetState(c3, [isOpen |-> FALSE])
    ELSE c

\* Faulty variant: a frame without a result ends the session's delivery.
decodeMiss_Ends(c) == [c EXCEPT !.isScanningRef = FALSE]

\* The decode callback on a frame without a result (369-396): the error is
\* logged unless it is a NotFoundException, and nothing else happens.
decodeMiss(c) == c

\* toggleTorch up to its await (434-451); torch is capabilities.torch of the
\* stream's video track.
toggleTorch(c, torch) ==
  IF c.streamRef = NoStream
    THEN c
    ELSE IF torch
      THEN [c EXCEPT !.torchPending = @ + 1]
      ELSE c

\* What toggleTorch did: returned at once, awaits applyConstraints, or threw
\* into its catch block, which shows the "torch not available" toast (452-459).
toggleTorchFound(c, torch) ==
  IF c.streamRef = NoStream
    THEN "torchNoStream"
    ELSE IF torch THEN "torchApplying" ELSE "torchUnsupported"

\* toggleTorch after applyConstraints resolved (445)
torchApplied(c) ==
  SetState([c EXCEPT !.torchPending = @ - 1], [isTorchOn |-> ~c.isTorchOn])

\* Faulty variant: the flag flips although applyConstraints rejected.
torchRejected_Flip(c) ==
  SetState([c EXCEPT !.torchPending = @ - 1], [isTorchOn |-> ~c.isTorchOn])

\* toggleTorch after applyConstraints rejected: the catch block (452-459)
torchRejected(c) == [c EXCEPT !.torchPending = @ - 1]

\* The [isOpen] effect (472-482): the cleanup of the previous run, then the
\* body for the new value of isOpen.
runEffect(c) ==
  LET c1 == stopCamera(c)
      c2 == initializeReader(c1)
      c3 == IF c2.isOpen THEN enumerateCameras(c2) ELSE c2
  IN  [c3 EXCEPT !.effectIsOpen = c3.isOpen]

\* React renders a state update with the handler that made it; the effects
\* of an update made in a click handler run with it too, those of an update
\* made elsewhere (the decode callback) run some time after it returned.
EffectPending == mounted /\ isOpen # effectIsOpen

\* What the user can click: the dialog is rendered and no effect is due.
Interactive == mounted /\ ~EffectPending

ScannerInit ==
  /\ secure \in BOOLEAN
  /\ mounted = TRUE
  /\ isOpen = FALSE
  /\ effectIsOpen = FALSE
  /\ isScanning = FALSE
  /\ isInitializing = FALSE
  /\ error = "null"
  /\ hasPermission = FALSE
  /\ isTorchOn = FALSE
  /\ availableCameras = <<>>
  /\ selectedCameraId = ""
  /\ streamRef = NoStream
  /\ readerRef = TRUE
  /\ isScanningRef = FALSE
  /\ detecting = 0
  /\ loops = 0
  /\ torchPending = 0
  /\ enumerated = <<>>
  /\ calls = 0
  /\ pendingStart = {}
  /\ pendingEnum = {}
  /\ timers = 0
  /\ acquired = {}
  /\ acquiredEnum = {}
  /\ stops = [id \in StreamIds |-> 0]
  /\ preempted = {}
  /\ sessionResults = 0
  /\ lastResult = <<>>
  /\ resultStream = NoStream
  /\ lastError = "null"
  /\ started = FALSE
  /\ stopped = FALSE
  /\ rejectedWith = "none"
  /\ lastOp = "init"

\* The dialog trigger: handleDialogClose(true) (492-497), then the effect.
OpenDialog ==
  /\ Interactive
  /\ ~isOpen
  /\ secure => calls < MaxCalls
  /\ Commit(runEffect(SetState(Cur, [isOpen |-> TRUE])), "open")

\* The dialog is dismissed: handleDialogClose(false), then the effect.
CloseDialog ==
  /\ Interactive
  /\ isOpen
  /\ Commit(runEffect(SetState(stopCamera(Cur), [isOpen |-> FALSE])), "close")

\* getUserMedia of enumerateCameras resolves, enumerateDevices answers.
EnumResolve ==
  \E id \in pendingEnum, devices \in DeviceLists :
    Commit(enumerateResolved(Cur, id, devices), "enumResolved")

\* getUserMedia of enumerateCameras rejects.
EnumReject ==
  \E id \in pendingEnum : Commit(enumerateRejected(Cur, id), "enumRejected")

\* The start button (500-508, 628-636).
StartScan ==
  /\ Interactive
  /\ isOpen
  /\ ~isScanning /\ ~isInitializing
  /\ ~(~hasPermission /\ Len(availableCameras) = 0)
  /\ calls < MaxCalls
  /\ Commit(startCamera(Cur), "start")

\* getUserMedia of startCamera resolves with a stream.
StartResolve ==
  \E id \in pendingStart :
    Commit(startResolved(Cur, id),
           IF id \in preempted THEN "startResolvedAfterStop" ELSE "startResolved")

\* getUserMedia of startCamera rejects.
StartReject ==
  \E id \in pendingStart, name \in ErrorNames :
    Commit(startRejected(Cur, id, name), "startRejected")

\* Either stop button (613-620, 638-645).
StopScan ==
  /\ Interactive
  /\ isOpen
  /\ isScanning \/ isInitializing
  /\ Commit(stopCamera(Cur), "stop")

\* The camera select (463-469, 541-556).
CameraChange ==
  /\ Interactive
  /\ isOpen
  /\ Len(availableCameras) > 1
  /\ \E i \in 1..Len(availableCameras) :
       /\ availableCameras[i].deviceId # selectedCameraId
       /\ LET c1 == SetState(Cur, [selectedCameraId |-> availableCameras[i].deviceId])
          IN  IF isScanning
                THEN Commit([stopCamera(c1) EXCEPT !.timers = @ + 1], "cameraChange")
                ELSE Commit(c1, "cameraChange")

\* The 100 ms timer of handleCameraChange fires (467).
TimerFire ==
  /\ timers > 0
  /\ calls < MaxCalls
  /\ Commit(startCamera([Cur EXCEPT !.timers = @ - 1]), "timer")

\* decodeFromVideoDevice resolves: the decode loop is running.
DetectStart ==
  /\ detecting > 0
  /\ Commit(detectionStarted(Cur), "detectStarted")

\* decodeFromVideoDevice rejects.
DetectFail ==
  /\ detecting > 0
  /\ Commit(detectionFailed(Cur), "detectFailed")

\* A decode loop finds no code in a frame, or fails on it.
DecodeMiss ==
  /\ loops > 0
  /\ Commit(decodeMiss(Cur), "decodeMiss")

\* The torch button (598-611).
ToggleTorch ==
  /\ Interactive
  /\ isOpen
  /\ isScanning
  /\ torchPending < MaxTorch
  /\ \E torch \in BOOLEAN :
       Commit(toggleTorch(Cur, torch), toggleTorchFound(Cur, torch))

\* applyConstraints of toggleTorch resolves.
TorchApplied ==
  /\ torchPending > 0
  /\ Commit(torchApplied(Cur), "torchApplied")

\* applyConstraints of toggleTorch rejects.
TorchFailed ==
  /\ torchPending > 0
  /\ Commit(torchRejected(Cur), "torchUnsupported")

\* A decode loop reads a code from a frame.
Decode ==
  /\ loops > 0
  /\ \E rawText \in ScanPayloads :
       Commit(decodeCallback(Cur, rawText),
              IF isScanningRef THEN "decode" ELSE "decodeIgnored")

\* React runs the [isOpen] effect for a change made by the decode callback.
RunEffects ==
  /\ EffectPending
  /\ secure /\ isOpen => calls < MaxCalls
  /\ Commit(runEffect(Cur), "effects")

\* The component is unmounted: the cleanups of both effects (479-481, 486-488).
Unmount ==
  /\ mounted
  /\ Commit([stopCamera(stopCamera(Cur)) EXCEPT !.mounted = FALSE], "unmount")

Next ==
  \/ OpenDialog
  \/ CloseDialog
  \/ EnumResolve
  \/ EnumReject
  \/ StartScan
  \/ StartResolve
  \/ StartReject
  \/ StopScan
  \/ CameraChange
  \/ TimerFire
  \/ DetectStart
  \/ DetectFail
  \/ DecodeMiss
  \/ ToggleTorch
  \/ TorchApplied
  \/ TorchFailed
  \/ Decode
  \/ RunEffects
  \/ Unmount

\* The form's input is untouched (defaultValues, qrCode: "").
FormIdle ==
  /\ typed = <<>>
  /\ parsed = <<>>
  /\ qrCode = <<>>

\* The admin app with nobody logged in and no request made.
ApiIdle ==
  /\ jwt = FALSE
  /\ userInfo = FALSE
  /\ isAuthenticated = FALSE
  /\ user = FALSE
  /\ isLoading = FALSE
  /\ navigating = FALSE
  /\ loginPending = FALSE
  /\ pc = "idle"
  /\ files = {}
  /\ photoIds = {}
  /\ requests = <<>>
  /\ submitResult = "none"
  /\ apiOp = "init"

\* The public page is not rendered.
PageIdle ==
  /\ serial = "none"
  /\ treeData = "null"
  /\ loading = TRUE
  /\ pageError = "null"
  /\ inflight = {}
  /\ fetches = 0
  /\ latest = "none"
  /\ pageOp = [op |-> "init", serial |-> "none", outcome |-> "none"]

\* The pure function's check is not run.
NotRun == [threw |-> FALSE, value |-> <<"<not run>">>, warned |-> FALSE]

ExtractIdle ==
  /\ payload = <<>>
  /\ outcome = NotRun
  /\ swapped = NotRun

Init == ScannerInit /\ ExtractIdle /\ FormIdle /\ ApiIdle /\ PageIdle

Spec == Init /\ [][Next]_vars

\* ------------------------------------------------------------------------
\* Specification of the pure function: a payload is drawn, the function is
\* applied to it, and to the payload with the other host in its place.
\* ------------------------------------------------------------------------
\* The payload with its host token replaced by the other host: defined for
\* payloads "scheme [/...] host ..." whose host is one of the two host words.
HostIndex(p) ==
  IF p # <<>> /\ p[1] \in SchemeTokens
    THEN FirstIn(From(p, 2), Alphabet \ {"/"}) + 1
    ELSE Len(p) + 1

HasSwappableHost(p) ==
  /\ HostIndex(p) <= Len(p)
  /\ p[HostIndex(p)] \in {ExpectedHost, OtherHost}
  /\ ParseURL(p).ok
  /\ ParseURL(p).hostname = <<p[HostIndex(p)]>>

SwapHost(p) ==
  [p EXCEPT ![HostIndex(p)] = IF @ = ExpectedHost THEN OtherHost ELSE ExpectedHost]

\* The component stays as constructed, in a secure context.
ScannerIdle == ScannerInit /\ secure

ExtractInit ==
  /\ payload \in Payloads
  /\ outcome = NotRun
  /\ swapped = NotRun
  /\ ScannerIdle
  /\ FormIdle /\ ApiIdle /\ PageIdle

ExtractRun ==
  /\ outcome = NotRun
  /\ outcome' = extractSerialNumber(payload)
  /\ UNCHANGED <<payload, swapped, scannerVars, appVars>>

ExtractRunSwapped ==
  /\ outcome # NotRun
  /\ swapped = NotRun
  /\ HasSwappableHost(payload)
  /\ swapped' = extractSerialNumber(SwapHost(payload))
  /\ UNCHANGED <<payload, outcome, scannerVars, appVars>>

ExtractNext == ExtractRun \/ ExtractRunSwapped

ExtractSpec == ExtractInit /\ [][ExtractNext]_vars

\* ------------------------------------------------------------------------
\* Properties of the scan session (checked under Spec)
\* ------------------------------------------------------------------------
\* Streams the session was given, and those whose tracks were never stopped.
Streams == acquired \cup acquiredEnum

LiveStreams == {id \in Streams : stops[id] = 0}

LiveStartStreams == {id \in acquired : stops[id] = 0}

\* stopCamera was the last thing that ran.
StopCompleted == lastOp \in {"stop", "close", "effects", "unmount"}

\* C1: once stop() has completed after a start(), every stream the session
\* acquired has been released exactly once (none live, none stopped twice).
C1_ReleasedExactlyOnce ==
  (started /\ StopCompleted) => \A id \in Streams : stops[id] = 1

\* C2: within one session (from a startCamera call until stopCamera runs)
\* onResult is invoked at most once.
C2_AtMostOneResult == sessionResults <= 1

\* C2 witness: a result was delivered, and a further decode event arrived
\* and was ignored before the session was stopped.
C2_Witness ==
  /\ lastOp = "decodeIgnored"
  /\ sessionResults = 1
  /\ EffectPending
  /\ lastResult = <<"A1">>

\* C3: the session never holds two live streams acquired by startCamera.
C3_AtMostOneLiveAcquisition == Cardinality(LiveStartStreams) <= 1

\* C4: when a start that stop() ran over has completed, the session is not
\* Scanning and holds no live stream acquired by startCamera.
C4_StopPreemptsPendingStart ==
  lastOp = "startResolvedAfterStop" => (~isScanning /\ LiveStartStreams = {})

\* ------------------------------------------------------------------------
\* Properties of extractSerialNumber (checked under ExtractSpec)
\* ------------------------------------------------------------------------
Ran == outcome # NotRun

PayloadURL == ParseURL(payload)

\* A path has a non-empty segment when it has a token other than "/".
HasSegment(path) == \E i \in 1..Len(path) : path[i] # "/"

RECURSIVE TrimSlashes(_)
TrimSlashes(s) ==
  IF s # <<>> /\ s[Len(s)] = "/" THEN TrimSlashes(SubSeq(s, 1, Len(s) - 1)) ELSE s

\* The tokens after the last "/" of s (all of s when it has none).
AfterLastSlash(s) ==
  LET slashes == {i \in 1..Len(s) : s[i] = "/"}
  IN  IF slashes = {} THEN s
      ELSE From(s, 1 + CHOOSE i \in slashes : \A j \in slashes : j <= i)

\* C5: for a payload that parses as a URL whose path has a non-empty
\* segment, the result is the last non-empty path segment (what follows the
\* last slash once trailing slashes are dropped).
C5_LastSegment ==
  (Ran /\ PayloadURL.ok /\ HasSegment(PayloadURL.pathname))
    => /\ ~outcome.threw
       /\ outcome.value = AfterLastSlash(TrimSlashes(PayloadURL.pathname))

\* C5 witness: "https://rehla-trees-planting.com/other.com/A1", a path of
\* two levels, has been resolved to its last segment.
C5_Witness ==
  /\ Ran
  /\ payload = <<"https:", "/", "/", ExpectedHost, "/", OtherHost, "/", "A1">>
  /\ PayloadURL.ok
  /\ outcome.value = <<"A1">>

\* C6: a payload that is not a well-formed URL is returned unchanged.
C6_NonURLUnchanged ==
  (Ran /\ ~PayloadURL.ok) => (~outcome.threw /\ outcome.value = payload)

\* C6 witness: the scheme-less string "A1" has been returned as it is.
C6_Witness == Ran /\ payload = <<"A1">> /\ ~PayloadURL.ok /\ outcome.value = <<"A1">>

\* C7: a URL whose path has no non-empty segment yields the whole original
\* payload, not the host and not the empty string.
C7_NoSegmentFallback ==
  (Ran /\ PayloadURL.ok /\ ~HasSegment(PayloadURL.pathname))
    => /\ outcome.value = payload
       /\ outcome.value # PayloadURL.hostname
       /\ outcome.value # <<>>

\* C7 witness: "https://rehla-trees-planting.com/" resolved to itself.
C7_Witness ==
  /\ Ran
  /\ payload = <<"https:", "/", "/", ExpectedHost, "/">>
  /\ PayloadURL.ok
  /\ PayloadURL.pathname = <<"/">>
  /\ outcome.value = payload

\* C8: a non-empty payload never resolves to an empty serial.
C8_NonEmptyResult == (Ran /\ payload # <<>>) => outcome.value # <<>>

\* C8 witness: a URL whose ".." removes the only segment, so that the
\* fallback is what keeps the result non-empty.
C8_Witness ==
  /\ Ran
  /\ payload = <<"https:", "/", "/", OtherHost, "/", "A1", "/", "..">>
  /\ ~HasSegment(PayloadURL.pathname)
  /\ outcome.value # <<>>

\* C9: the function is total: whatever the payload, it returns a string and
\* does not throw, also when new URL raises.
C9_Total ==
  Ran => /\ ~outcome.threw
         /\ outcome.value \in Seq(Alphabet)

\* C9 witness: "https://" makes new URL throw, and a value was returned.
C9_Witness ==
  /\ Ran
  /\ payload = <<"https:", "/", "/">>
  /\ TryBody(payload).raised
  /\ ~outcome.threw

\* C10 as stated: two URL payloads that differ only in their host resolve to
\* the same serial.
C10_HostIndependent_Original ==
  (Ran /\ swapped # NotRun) => swapped.value = outcome.value

\* C10 amended: when the path has a non-empty segment, two URL payloads that
\* differ only in their host resolve to the same serial, and the unexpected
\* host shows in the advisory alone.
C10_HostIndependent ==
  (Ran /\ swapped # NotRun /\ HasSegment(PayloadURL.pathname))
    => /\ swapped.value = outcome.value
       /\ ~swapped.threw /\ ~outcome.threw
       /\ swapped.warned # outcome.warned

\* C10 witness: "https://other.com/A1" and the same on the expected host
\* both resolved to "A1", with the advisory for the first only.
C10_Witness ==
  /\ payload = <<"https:", "/", "/", OtherHost, "/", "A1">>
  /\ swapped # NotRun
  /\ outcome.value = <<"A1">>
  /\ swapped.value = <<"A1">>
  /\ outcome.warned /\ ~swapped.warned

\* ------------------------------------------------------------------------
\* Properties of the scan session's lifecycle (checked under Spec)
\* ------------------------------------------------------------------------
\* The stream the session holds is live: its tracks were never stopped.
HeldLive == streamRef # NoStream /\ stops[streamRef] = 0

\* C11: a successful decode hands its result to onResult, sets isScanning to
\* false and closes the dialog, which makes the [isOpen] effect due; once
\* React has run the effect, with no click in between, the session is not
\* scanning, holds no stream, and the stream it held when onResult was
\* called has been stopped.
C11_SelfStop ==
  /\ lastOp = "decode" =>
       /\ sessionResults >= 1
       /\ ~isScanning /\ ~isOpen /\ EffectPending
  /\ lastOp = "effects" =>
       /\ ~isScanning /\ ~isOpen /\ ~isScanningRef
       /\ streamRef = NoStream
       /\ resultStream # NoStream => stops[resultStream] >= 1

\* C12: once stopCamera has run, and until startCamera is called again, no
\* decode event hands a result to onResult or changes the session's state.
C12_NoResultAfterStop == lastOp = "decode" => ~stopped

\* The lifecycle state the component shows: the error alert, the video with
\* its spinner, the video with the scan frame, or the start button.
Lifecycle ==
  IF error # "null" THEN "Error"
  ELSE IF isInitializing THEN "Initializing"
  ELSE IF isScanning THEN "Scanning"
  ELSE IF stopped THEN "Stopped"
  ELSE "Idle"

\* C13: in the Stopped and in the Error state the session holds no live
\* camera stream and isScanning is false.
C13_StoppedOrErrorReleased ==
  Lifecycle \in {"Stopped", "Error"} => ~HeldLive /\ ~isScanning

\* C14: isInitializing and isScanning are never both true, isScanning
\* becomes true only while isInitializing is true and through a resolved
\* acquisition, and an error is set only while isInitializing or isScanning
\* is true.
C14_Lifecycle ==
  [][/\ ~(isInitializing' /\ isScanning')
     /\ (~isScanning /\ isScanning') =>
          isInitializing /\ lastOp' \in {"startResolved", "startResolvedAfterStop"}
     /\ (error = "null" /\ error' # "null") => isInitializing \/ isScanning]_vars

\* C15: in every reachable state, stopCamera run twice leaves what
\* stopCamera run once leaves, the stop count of every stream included.
C15_StopIdempotent == stopCamera(stopCamera(Cur)) = stopCamera(Cur)

\* C15 witness: the unmount ran stopCamera twice in a row on a session that
\* held a live stream, and the stream was stopped once.
C15_Witness ==
  /\ lastOp = "unmount"
  /\ streamRef = NoStream
  /\ \E id \in acquired : stops[id] = 1
  /\ LiveStartStreams = {}

\* The scanner UI was left: the dialog is closed, or the component unmounted.
Exited == ~mounted \/ (~isOpen /\ ~EffectPending)

\* C16: once the scanner UI was left (the dialog closed by the user or by a
\* change of its open flag, or the component unmounted), in whichever
\* state, the session holds no live camera stream.
C16_ExitReleases == Exited => ~HeldLive

\* The four categories of acquisition failure startCamera tells apart.
Categories ==
  {"NotAllowedError", "NotFoundError", "NotReadableError", "OverconstrainedError"}

\* C17: when getUserMedia of startCamera rejects, onError and scanState.error
\* get the message of the rejection's category, the four categories have
\* four different messages, isInitializing becomes false and isScanning
\* does not become true, and the handler makes and schedules no further
\* getUserMedia call.
C17_FailureReported ==
  [][lastOp' = "startRejected" =>
       /\ rejectedWith' \in ErrorNames
       /\ lastError' = ErrorMessage(rejectedWith')
       /\ mounted => error' = lastError'
       /\ ~isInitializing'
       /\ isScanning' = isScanning
       /\ calls' = calls /\ timers' = timers
       /\ pendingStart' \subseteq pendingStart /\ pendingStart' # pendingStart
       /\ \A n1, n2 \in Categories : n1 # n2 => ErrorMessage(n1) # ErrorMessage(n2)]_vars

\* C17 witness: the only acquisition awaited was rejected because the device
\* is busy; the session shows that message and is neither initializing nor
\* scanning.
C17_Witness ==
  /\ lastOp = "startRejected"
  /\ rejectedWith = "NotReadableError"
  /\ error = "Unable to access camera. Camera is already in use by another application."
  /\ lastError = error
  /\ ~isInitializing /\ ~isScanning
  /\ pendingStart = {}

\* The component's state apart from the torch and from lastOp.
NonTorchFields ==
  <<secure, mounted, isOpen, effectIsOpen, isScanning, isInitializing, error,
    hasPermission, availableCameras, selectedCameraId, streamRef, readerRef,
    isScanningRef, detecting, loops, enumerated, calls, pendingStart,
    pendingEnum, timers, acquired, acquiredEnum, stops, preempted,
    sessionResults, lastResult, resultStream, lastError, started, stopped,
    rejectedWith>>

SessionFields == <<NonTorchFields, isTorchOn, torchPending>>

\* C18: a frame without a result changes nothing of the session and calls
\* neither onResult nor onError; a session that was scanning keeps
\* scanning, and a decode of a later frame is still delivered.
C18_MissIgnored ==
  /\ [][lastOp' = "decodeMiss" => UNCHANGED SessionFields]_vars
  /\ [](lastOp = "decodeMiss" /\ isScanningRef => ENABLED (Decode /\ lastOp' = "decode"))

\* C18 witness: a frame gave no result in a scanning session that has
\* delivered nothing yet.
C18_Witness ==
  /\ lastOp = "decodeMiss"
  /\ isScanning /\ isScanningRef
  /\ HeldLive
  /\ sessionResults = 0

\* C19: toggleTorch without a stream changes nothing; when the track has
\* no torch or applyConstraints rejects, the toast is shown and isTorchOn
\* and the rest of the session stay as they were; isTorchOn changes only
\* when applyConstraints resolved, or back to false when stopCamera runs.
C19_TorchSoft ==
  [][/\ lastOp' = "torchNoStream" => UNCHANGED SessionFields
     /\ lastOp' = "torchUnsupported" => UNCHANGED <<NonTorchFields, isTorchOn>>
     /\ lastOp' = "torchApplying" => UNCHANGED <<NonTorchFields, isTorchOn>>
     /\ isTorchOn' # isTorchOn =>
          lastOp' = "torchApplied" \/ (~isTorchOn' /\ stopped')]_vars

\* C19 witness: the torch was switched on, and a later toggle that failed
\* left it on and the session scanning.
C19_Witness ==
  /\ lastOp = "torchUnsupported"
  /\ isTorchOn
  /\ isScanning
  /\ HeldLive

\* devs has every back camera before every other camera.
BackFirst(devs) ==
  \A i, j \in 1..Len(devs) : (i < j /\ devs[j].isBackCamera) => devs[i].isBackCamera

\* a and b hold the same devices.
SameDevices(a, b) ==
  /\ Len(a) = Len(b)
  /\ {a[i] : i \in 1..Len(a)} = {b[i] : i \in 1..Len(b)}

C21_SecureContextFirst ==
  ~secure =>
    /\ calls = 0
    /\ error \in {"null", HttpsMessage}
    /\ lastOp = "open" => error = HttpsMessage

\* C22: at most one decode loop runs at any time.
C22_OneDecodeLoop == loops <= 1

\* C28: when a startCamera that no stopCamera ran over has resolved in the
\* open dialog, and the session is scanning on a live stream, the decode
\* callback is armed: a code read from a frame will be handed to onResult.
C28_ScanningDecodes ==
  (/\ lastOp = "startResolved"
   /\ mounted /\ isOpen
   /\ Lifecycle = "Scanning"
   /\ HeldLive) => isScanningRef

\* C29: startCamera begins an acquisition only while the component is
\* mounted and its dialog open, the start that handleCameraChange delays
\* by 100 ms included.
C29_NoStartAfterClose ==
  [][pendingStart' # pendingStart /\ pendingStart \subseteq pendingStart' =>
       mounted' /\ isOpen']_vars

\* ------------------------------------------------------------------------
\* The serial-number input of DataEntryForm (part_004 lines 183-197, 271-279)
\* ------------------------------------------------------------------------
Form == [qrCode |-> qrCode, parsed |-> parsed]

\* form.setValue("qrCode", v)
setValue(form, v) == [form EXCEPT !.qrCode = v, !.parsed = v]

\* url.pathname.split('/').filter(segment => segment.length > 0)
PathSegmentsOf(value) == FilterNonEmpty(Split(ParseURL(value).pathname, "/"))

\* handleQRInputChange (183-197): the last path segment of a URL, anything
\* else as it is.
handleQRInputChange(form, value) ==
  LET url          == ParseURL(value)
      serialNumber == LastSegment(PathSegmentsOf(value))
  IN  IF ~url.ok THEN setValue(form, value)
      ELSE setValue(form, OrElse(serialNumber, value))

\* field.onChange(e) of the form library's controller: the field takes
\* event.target.value.
fieldOnChange(form, value) == [form EXCEPT !.qrCode = value]

\* The input's onChange (275-278): handleQRInputChange(e); field.onChange(e).
InputOnChange(form, value) == fieldOnChange(handleQRInputChange(form, value), value)

\* The user puts the text payload into the empty serial-number field: the
\* change event carries it.
InputChange ==
  /\ typed = <<>>
  /\ payload # <<>>
  /\ LET f == InputOnChange(Form, payload)
     IN  /\ typed' = payload
         /\ qrCode' = f.qrCode
         /\ parsed' = f.parsed
  /\ UNCHANGED <<extractVars, scannerVars, apiVars, pageVars>>

\* The form as constructed, and a text the user is about to enter.
FormInit ==
  /\ payload \in Payloads
  /\ outcome = NotRun
  /\ swapped = NotRun
  /\ ScannerIdle /\ FormIdle /\ ApiIdle /\ PageIdle

FormNext == InputChange

FormSpec == FormInit /\ [][FormNext]_vars

\* A URL with at least one path segment.
HasPathSegment(value) == ParseURL(value).ok /\ PathSegmentsOf(value) # <<>>

\* C25: after a change event whose value is a URL with at least one path
\* segment, the form's qrCode is the last path segment, not the raw URL.
C25_ManualInputParsed ==
  HasPathSegment(typed) =>
    /\ qrCode = LastSegment(PathSegmentsOf(typed)).v
    /\ qrCode # typed

\* ------------------------------------------------------------------------
\* The API client (api.ts) and useAuth (Index.tsx 95-151)
\* ------------------------------------------------------------------------
AuthEndpoint == "/api/auth/local"

TreesEndpoint == "/api/trees"

UploadEndpoint == "/api/upload"

PhotoFields == {"tree_photo", "planter_photo"}

\* The client's state as one record; issued and thrown are what the call
\* being made has sent and raised so far, tokenless tells that it called
\* apiFetch for the trees endpoint while no JWT was stored.
Api ==
  [jwt |-> jwt, userInfo |-> userInfo, isAuthenticated |-> isAuthenticated,
   user |-> user, isLoading |-> isLoading, navigating |-> navigating,
   loginPending |-> loginPending, pc |-> pc, files |-> files,
   photoIds |-> photoIds, requests |-> requests, submitResult |-> submitResult,
   issued |-> "none", thrown |-> "none", tokenless |-> FALSE]

ApiCommit(a, op) ==
  /\ jwt' = a.jwt
  /\ userInfo' = a.userInfo
  /\ isAuthenticated' = a.isAuthenticated
  /\ user' = a.user
  /\ isLoading' = a.isLoading
  /\ navigating' = a.navigating
  /\ loginPending' = a.loginPending
  /\ pc' = a.pc
  /\ files' = a.files
  /\ photoIds' = a.photoIds
  /\ requests' = a.requests
  /\ submitResult' = a.submitResult
  /\ apiOp' = IF a.tokenless THEN "apiFetchNoToken" ELSE op
  /\ UNCHANGED <<extractVars, scannerVars, formVars, pageVars>>

\* redirectToLogin (47-55): both keys removed, then window.location.href = '/'.
\* The assignment starts a navigation; the script goes on until the page is
\* replaced.
redirectToLogin(a) == [a EXCEPT !.jwt = FALSE, !.userInfo = FALSE, !.navigating = TRUE]

\* Faulty variant: the request is sent without a token.
apiFetch_NoGuard(a, endpoint) == [a EXCEPT !.issued = endpoint]

\* apiFetch up to its await (58-87).
apiFetch(a, endpoint) ==
  IF ~a.jwt /\ endpoint # AuthEndpoint
    THEN [redirectToLogin(a) EXCEPT !.thrown = "Authentication required"]
    ELSE [a EXCEPT !.issued = endpoint]

\* What apiFetch does with a response that is not ok (93-103).
apiFetchNotOk(a, status) ==
  IF status = 401
    THEN [redirectToLogin(a) EXCEPT !.thrown = "Authentication expired"]
    ELSE [a EXCEPT !.thrown = "HTTP error"]

\* treesAPI.uploadFile up to its await (139-160).
uploadFile(a) ==
  IF ~a.jwt THEN [a EXCEPT !.thrown = "Authentication required"]
  ELSE [a EXCEPT !.issued = UploadEndpoint]

\* treesAPI.create's catch block rethrows (231-234).
createFailed(a) == [a EXCEPT !.pc = "idle", !.submitResult = a.thrown]

\* A request of treesAPI.create goes out and is awaited.
Awaiting(a, what) ==
  [a EXCEPT !.requests = Append(@, <<a.issued, what>>), !.pc = what]

\* create from the record-creation request on (210-227).
createPost(a) ==
  LET r == [apiFetch(a, TreesEndpoint) EXCEPT !.tokenless = ~a.jwt]
  IN  IF r.thrown # "none" THEN createFailed(r) ELSE Awaiting(r, "record")

\* create from the planter photo on (205-208).
createPlanter(a) ==
  IF "planter_photo" \in a.files
    THEN LET r == uploadFile(a)
         IN  IF r.thrown # "none" THEN createFailed(r) ELSE Awaiting(r, "planter_photo")
    ELSE createPost(a)

\* create from the tree photo on (200-203).
createTree(a) ==
  IF "tree_photo" \in a.files
    THEN LET r == uploadFile(a)
         IN  IF r.thrown # "none" THEN createFailed(r) ELSE Awaiting(r, "tree_photo")
    ELSE createPlanter(a)

\* treesAPI.create(treeData, files) (189-235).
create(a, fs) ==
  createTree([a EXCEPT !.files = fs, !.photoIds = {}, !.requests = <<>>,
                       !.submitResult = "pending"])

\* uploadFile's response was ok and names the file (177-181).
uploadResolved(a) ==
  LET r == [a EXCEPT !.photoIds = @ \cup {a.pc}]
  IN  IF a.pc = "tree_photo" THEN createPlanter(r) ELSE createPost(r)

\* Faulty variant: a failed upload is passed over and create goes on.
uploadRejected_GoesOn(a) ==
  IF a.pc = "tree_photo" THEN createPlanter(a) ELSE createPost(a)

\* uploadFile throws: response not ok, no file in the answer, network error
\* (164-185).
uploadRejected(a) == createFailed([a EXCEPT !.thrown = "Upload failed"])

\* The page the navigation loads: state is built anew from localStorage
\* (Index.tsx 96-118) and nothing of the old page is awaited.
reload(a) ==
  [a EXCEPT !.navigating = FALSE, !.isAuthenticated = a.jwt,
            !.user = a.jwt /\ a.userInfo,
            !.isLoading = FALSE, !.loginPending = FALSE, !.pc = "idle",
            !.files = {}, !.photoIds = {}, !.requests = <<>>,
            !.submitResult = "none"]

\* useAuth.login up to its await (Index.tsx 121-124; api.ts 116-120).
Login ==
  /\ ~isAuthenticated /\ ~isLoading /\ ~loginPending
  /\ LET r == apiFetch([Api EXCEPT !.isLoading = TRUE], AuthEndpoint)
     IN  ApiCommit([r EXCEPT !.loginPending = TRUE], "login")

\* The login response is ok (api.ts 122-126; Index.tsx 126-128, 132-134).
LoginResolve ==
  /\ loginPending
  /\ ApiCommit([Api EXCEPT !.jwt = TRUE, !.userInfo = TRUE, !.user = TRUE,
                           !.isAuthenticated = TRUE, !.isLoading = FALSE,
                           !.loginPending = FALSE], "loginResolved")

\* The login response is not ok (api.ts 93-103; Index.tsx 129-134).
LoginReject ==
  /\ loginPending
  /\ \E status \in {400, 401} :
       ApiCommit([apiFetchNotOk(Api, status) EXCEPT !.isLoading = FALSE,
                                                    !.loginPending = FALSE],
                 "loginRejected")

\* useAuth.logout (Index.tsx 138-142; api.ts 130-133).
Logout ==
  /\ isAuthenticated /\ ~isLoading
  /\ ApiCommit([Api EXCEPT !.jwt = FALSE, !.userInfo = FALSE, !.user = FALSE,
                           !.isAuthenticated = FALSE], "logout")

\* The form is submitted (part_004 154): treesAPI.create up to its first await.
Submit ==
  /\ isAuthenticated /\ ~isLoading
  /\ pc = "idle"
  /\ \E fs \in SUBSET PhotoFields :
       ApiCommit(create(Api, fs), "submit")

\* An upload's response is ok: create goes on to its next await.
UploadResolve ==
  /\ pc \in PhotoFields
  /\ ApiCommit(uploadResolved(Api), "uploadResolved")

\* An upload fails.
UploadReject ==
  /\ pc \in PhotoFields
  /\ ApiCommit(uploadRejected(Api), "uploadRejected")

\* The record-creation response is ok (105-106, 229-230).
PostResolve ==
  /\ pc = "record"
  /\ ApiCommit([Api EXCEPT !.pc = "idle", !.submitResult = "created"], "created")

\* The record-creation response is not ok (93-103, 231-234).
PostReject ==
  /\ pc = "record"
  /\ \E status \in {400, 401} :
       ApiCommit(createFailed(apiFetchNotOk(Api, status)), "postRejected")

\* The navigation redirectToLogin started replaces the page.
Reload ==
  /\ navigating
  /\ ApiCommit(reload(Api), "reload")

ApiInit ==
  /\ jwt \in BOOLEAN
  /\ userInfo = jwt
  /\ isAuthenticated = jwt
  /\ user = userInfo
  /\ isLoading = FALSE
  /\ navigating = FALSE
  /\ loginPending = FALSE
  /\ pc = "idle"
  /\ files = {}
  /\ photoIds = {}
  /\ requests = <<>>
  /\ submitResult = "none"
  /\ apiOp = "init"
  /\ ScannerIdle /\ ExtractIdle /\ FormIdle /\ PageIdle

ApiNext ==
  \/ Login
  \/ LoginResolve
  \/ LoginReject
  \/ Logout
  \/ Submit
  \/ UploadResolve
  \/ UploadReject
  \/ PostResolve
  \/ PostReject
  \/ Reload

ApiSpec == ApiInit /\ [][ApiNext]_vars

\* ------------------------------------------------------------------------
\* Properties of the API client (checked under ApiSpec)
\* ------------------------------------------------------------------------
\* treesAPI.create has issued the request it names so.
Requested(what) == \E i \in DOMAIN requests : requests[i][2] = what

\* C23: treesAPI.create uploads each provided photo, the tree photo before
\* the planter photo, before it issues the record-creation request; it
\* issues POST /api/trees only if every provided upload succeeded, and when
\* an upload fails no tree record is created.
C23_UploadsBeforeRecord ==
  /\ \A i \in DOMAIN requests :
       /\ requests[i][2] = "record" =>
            /\ requests[i][1] = TreesEndpoint
            /\ i = Len(requests)
            /\ files \subseteq photoIds
            /\ \A f \in files : \E j \in 1..(i - 1) : requests[j] = <<UploadEndpoint, f>>
       /\ requests[i][2] \in PhotoFields =>
            /\ requests[i][2] \in files
            /\ requests[i][1] = UploadEndpoint
       /\ \A j \in DOMAIN requests :
            requests[i][2] = "tree_photo" /\ requests[j][2] = "planter_photo" => i < j
  /\ apiOp = "uploadRejected" =>
       /\ ~Requested("record")
       /\ pc = "idle"
       /\ submitResult = "Upload failed"
  /\ submitResult = "created" => Requested("record")

\* Both photos were uploaded and the record was created.
C23_Witness ==
  /\ submitResult = "created"
  /\ files = PhotoFields
  /\ requests = <<<<UploadEndpoint, "tree_photo">>, <<UploadEndpoint, "planter_photo">>,
                  <<TreesEndpoint, "record">>>>

\* C26: apiFetch called for the trees endpoint while no JWT is stored issues
\* no request: the stored auth data is cleared, the redirect to the login
\* page is started and the call fails with 'Authentication required'.
C26_NoTokenNoRequest ==
  apiOp = "apiFetchNoToken" =>
    /\ ~Requested("record")
    /\ pc = "idle"
    /\ ~jwt /\ ~userInfo
    /\ navigating
    /\ submitResult = "Authentication required"

\* apiFetch was called without a token after an upload went through.
C26_Witness ==
  /\ apiOp = "apiFetchNoToken"
  /\ photoIds # {}

\* C27: once login, logout and apiFetch calls have completed, localStorage
\* holds a JWT iff it holds the user info, and isAuthenticated is true only
\* while a JWT is stored.
C27_AuthConsistent ==
  (~loginPending /\ pc = "idle") =>
    /\ jwt <=> userInfo
    /\ isAuthenticated => jwt

\* ------------------------------------------------------------------------
\* TreeDataPage (TreePlantingApp.tsx 620-740) with fetchTreeBySerial
\* (Header.tsx 104-132)
\* ------------------------------------------------------------------------
\* fetchTreeData calls in one visit of the page.
MaxFetches == 4

Serials == {"S1", "S2"}

\* What the backend can answer: a tree with the serial, no tree, a failure.
Outcomes == {"match", "no match", "failure"}

NotFoundMessage == "tree not found"

LoadErrorMessage == "error while loading"

Page ==
  [serial |-> serial, treeData |-> treeData, loading |-> loading,
   pageError |-> pageError, inflight |-> inflight, fetches |-> fetches,
   latest |-> latest]

PageCommit(p, op) ==
  /\ serial' = p.serial
  /\ treeData' = p.treeData
  /\ loading' = p.loading
  /\ pageError' = p.pageError
  /\ inflight' = p.inflight
  /\ fetches' = p.fetches
  /\ latest' = p.latest
  /\ pageOp' = op
  /\ UNCHANGED <<extractVars, scannerVars, formVars, apiVars>>

\* fetchTreeData up to its await (630-638).
fetchTreeData(p) ==
  [p EXCEPT !.loading = TRUE, !.pageError = "null",
            !.fetches = @ + 1,
            !.inflight = @ \cup {[id |-> p.fetches + 1, serial |-> p.serial]},
            !.latest = "pending"]

\* fetchTreeData after its await (638-651), for the call f and the
\* backend's answer.
fetchEnded(p, f, answer) ==
  LET q == IF answer = "match" THEN [p EXCEPT !.treeData = f.serial]
           ELSE IF answer = "no match" THEN [p EXCEPT !.pageError = NotFoundMessage]
           ELSE [p EXCEPT !.pageError = LoadErrorMessage]
  IN  [q EXCEPT !.loading = FALSE,
                !.inflight = @ \ {f},
                !.latest = IF f.id = p.fetches THEN answer ELSE @]

\* What the page renders (688-740): the spinner, the error card with its
\* message and the retry button, or the tree.
View(isLoading_, err, data) ==
  IF isLoading_ THEN [card |-> "loading", text |-> "none"]
  ELSE IF err # "null" \/ data = "null"
    THEN [card |-> "error", text |-> IF err # "null" THEN err ELSE NotFoundMessage]
    ELSE [card |-> "data", text |-> data]

Shown == View(loading, pageError, treeData)

\* What the page is to show for a fetch of serial s that ended with that answer.
Expected(s, answer) ==
  IF answer = "match" THEN [card |-> "data", text |-> s]
  ELSE IF answer = "no match" THEN [card |-> "error", text |-> NotFoundMessage]
  ELSE [card |-> "error", text |-> LoadErrorMessage]

\* The :serial route parameter changes: the [serial] effect runs fetchTreeData.
RouteChange ==
  /\ fetches < MaxFetches
  /\ \E s \in Serials \ {serial} :
       PageCommit(fetchTreeData([Page EXCEPT !.serial = s]),
                  [op |-> "route", serial |-> s, outcome |-> "none"])

\* The retry button of the error card: handleRetry (657-659).
Retry ==
  /\ fetches < MaxFetches
  /\ Shown.card = "error"
  /\ PageCommit(fetchTreeData(Page), [op |-> "retry", serial |-> serial, outcome |-> "none"])

\* A fetchTreeBySerial call returns or throws.
FetchEnd ==
  \E f \in inflight, answer \in Outcomes :
    PageCommit(fetchEnded(Page, f, answer),
               [op |-> IF f.id = fetches THEN "latestEnded" ELSE "staleEnded",
                serial |-> f.serial, outcome |-> answer])

\* The page is mounted with a serial and the [serial] effect has run.
PageInit ==
  /\ serial \in Serials
  /\ treeData = "null"
  /\ loading = TRUE
  /\ pageError = "null"
  /\ inflight = {[id |-> 1, serial |-> serial]}
  /\ fetches = 1
  /\ latest = "pending"
  /\ pageOp = [op |-> "mount", serial |-> serial, outcome |-> "none"]
  /\ ScannerIdle /\ ExtractIdle /\ FormIdle /\ ApiIdle

PageNext == RouteChange \/ Retry \/ FetchEnd

PageSpec == PageInit /\ [][PageNext]_vars

\* C24: the fetch for the page's serial ends with loading cleared and
\* exactly the outcome's card shown: the tree on a match, the not-found
\* message on no match, the loading-error message on a failure; retry
\* issues a new fetch for the same serial.
C24_FetchOutcomeShown ==
  /\ pageOp.op = "latestEnded" =>
       /\ ~loading
       /\ Shown = Expected(pageOp.serial, pageOp.outcome)
  /\ pageOp.op = "retry" =>
       /\ pageOp.serial = serial
       /\ [id |-> fetches, serial |-> serial] \in inflight

\* C30: once every response has arrived, the page shows the outcome of the
\* fetch for the latest requested serial, whatever the order of arrival.
C30_LatestSerialShown ==
  (inflight = {} /\ fetches > 1) => Shown = Expected(serial, latest)
====
